---- MODULE Spec2Model ----
(***************************************************************************)
(* A model of the MTG Arena deck monitor: LogParser (log_parser.py) and    *)
(* the scan loop of MTGArenaDaemon (daemon.py).                            *)
(*                                                                         *)
(* The log file is a sequence of lexemes.  A lexeme is one character of    *)
(* the file for the characters the code looks at ("{", "}") and for the    *)
(* content of string literals; a JSON key together with its quotes and     *)
(* colon, a number, null and the separating commas are abstracted to one   *)
(* lexeme each (commas to none).  Offsets count lexemes.                   *)
(***************************************************************************)
EXTENDS Integers, Sequences, FiniteSets, TLC

(***************************************************************************)
(* Lexemes.                                                                *)
(***************************************************************************)
Quote == "\""

\* The key lexemes: the token "mainDeck" stands for the text "mainDeck": .
KeyToks ==
    {"mainDeck", "mainBoard", "sideboard", "decks", "deckList", "id", "deckId",
     "deckID", "name", "deckName", "format", "description",
     "commandZoneGRPIds", "cardId", "quantity", "other",
     "MainDeck", "Name", "DECKS", "deckid"}

NumToks == {"0", "1", "2", "4", "-1"}

NumVal(tok) ==
    CASE tok = "0" -> 0
      [] tok = "1" -> 1
      [] tok = "2" -> 2
      [] tok = "4" -> 4
      [] tok = "-1" -> -1

(***************************************************************************)
(* Python values: what json.loads returns, and None.  Every value is a     *)
(* record with a type tag t and a payload v; a str is the sequence of its   *)
(* characters.                                                             *)
(***************************************************************************)
Str(s) == [t |-> "str", v |-> s]
Num(n) == [t |-> "num", v |-> n]
None == [t |-> "null", v |-> 0]
List(s) == [t |-> "list", v |-> s]
\* A dict is the function from its keys, with the keys in insertion order.
Dict(f, ks) == [t |-> "dict", v |-> f, ks |-> ks]

EmptyDict == Dict([k \in {} |-> None], <<>>)

\* d[k] = val
SetItem(d, k, val) ==
    Dict((k :> val) @@ d.v, IF k \in DOMAIN d.v THEN d.ks ELSE Append(d.ks, k))

IsDict(x) == x.t = "dict"
IsList(x) == x.t = "list"

\* key in d
HasKey(d, k) == k \in DOMAIN d.v

\* d.get(k, default)
GetOr(d, k, default) == IF HasKey(d, k) THEN d.v[k] ELSE default

\* d.get(k)
Get(d, k) == GetOr(d, k, None)

\* bool(x)
Truthy(x) ==
    CASE x.t = "str" -> Len(x.v) > 0
      [] x.t = "num" -> x.v # 0
      [] x.t = "null" -> FALSE
      [] x.t = "list" -> Len(x.v) > 0
      [] x.t = "dict" -> DOMAIN x.v # {}

\* a or b
Or(a, b) == IF Truthy(a) THEN a ELSE b

(***************************************************************************)
(* json.loads on a block of lexemes: a recursive-descent decode.  A result *)
(* is [ok, val, next]: whether a value was read at position i, the value,  *)
(* and the position after it.                                              *)
(***************************************************************************)
Fail == [ok |-> FALSE, val |-> None, next |-> 0]

RECURSIVE ParseValue(_, _), ParseMembers(_, _, _), ParseElems(_, _, _), ParseString(_, _, _)
RECURSIVE MemberRead(_, _, _, _), ElemRead(_, _, _)

\* The characters up to the closing quote are the content of the string.
ParseString(toks, i, acc) ==
    IF i > Len(toks) THEN Fail
    ELSE IF toks[i] = Quote THEN [ok |-> TRUE, val |-> Str(acc), next |-> i + 1]
    ELSE ParseString(toks, i + 1, Append(acc, toks[i]))

\* After "{": key value ... "}".  A repeated key keeps its last value.
ParseMembers(toks, i, acc) ==
    IF i > Len(toks) THEN Fail
    ELSE IF toks[i] = "}" THEN [ok |-> TRUE, val |-> acc, next |-> i + 1]
    ELSE IF toks[i] \in KeyToks
         THEN MemberRead(toks, toks[i], acc, ParseValue(toks, i + 1))
         ELSE Fail

\* The value r of key was read (or not): the members after it.
MemberRead(toks, key, acc, r) ==
    IF r.ok THEN ParseMembers(toks, r.next, SetItem(acc, key, r.val)) ELSE Fail

\* After "[": value ... "]".
ParseElems(toks, i, acc) ==
    IF i > Len(toks) THEN Fail
    ELSE IF toks[i] = "]" THEN [ok |-> TRUE, val |-> List(acc), next |-> i + 1]
    ELSE ElemRead(toks, acc, ParseValue(toks, i))

\* The element r was read (or not): the elements after it.
ElemRead(toks, acc, r) ==
    IF r.ok THEN ParseElems(toks, r.next, Append(acc, r.val)) ELSE Fail

ParseValue(toks, i) ==
    IF i > Len(toks) THEN Fail
    ELSE CASE toks[i] = "{" -> ParseMembers(toks, i + 1, EmptyDict)
           [] toks[i] = "[" -> ParseElems(toks, i + 1, <<>>)
           [] toks[i] = Quote -> ParseString(toks, i + 1, <<>>)
           [] toks[i] \in NumToks -> [ok |-> TRUE, val |-> Num(NumVal(toks[i])), next |-> i + 1]
           [] toks[i] = "null" -> [ok |-> TRUE, val |-> None, next |-> i + 1]
           [] OTHER -> Fail

\* json.loads(json_str): [ok |-> FALSE] stands for JSONDecodeError (text
\* after the value is an error too).
WholeText(r, json_str) == IF r.ok /\ r.next = Len(json_str) + 1 THEN r ELSE Fail

JsonLoads(json_str) == WholeText(ParseValue(json_str, 1), json_str)

(***************************************************************************)
(* LogParser.extract_json_blocks                                           *)
(***************************************************************************)
\* log_content[a:b] for 0 <= a <= b <= len
Slice(s, a, b) == SubSeq(s, a + 1, b)

ScanInit == [brace_level |-> 0, start_idx |-> -1, json_blocks |-> <<>>]

\* The try block of the loop: the parsed object is appended, a block that
\* does not decode is skipped.
TryAppend(json_blocks, json_obj) ==
    IF json_obj.ok THEN Append(json_blocks, json_obj.val) ELSE json_blocks

\* As ScanStep, had the braces inside string literals (after an odd number
\* of quotes) been left out of the count.
ScanStep_QuoteAware(st, char, log_content, i) ==
    IF Cardinality({k \in 1..i : log_content[k] = Quote}) % 2 = 1 THEN st
    ELSE IF char = "{"
    THEN [st EXCEPT !.brace_level = @ + 1,
                    !.start_idx = IF st.brace_level = 0 THEN i ELSE @]
    ELSE IF char = "}"
    THEN IF st.brace_level - 1 = 0 /\ st.start_idx # -1
         THEN [brace_level |-> 0,
               start_idx |-> -1,
               json_blocks |->
                   TryAppend(st.json_blocks,
                             JsonLoads(Slice(log_content, st.start_idx, i + 1)))]
         ELSE [st EXCEPT !.brace_level = @ - 1]
    ELSE st

\* One iteration of the for loop: character char at index i (from 0).
ScanStep(st, char, log_content, i) ==
    IF char = "{"
    THEN [st EXCEPT !.brace_level = @ + 1,
                    !.start_idx = IF st.brace_level = 0 THEN i ELSE @]
    ELSE IF char = "}"
    THEN IF st.brace_level - 1 = 0 /\ st.start_idx # -1
         THEN [brace_level |-> 0,
               start_idx |-> -1,
               json_blocks |->
                   TryAppend(st.json_blocks,
                             JsonLoads(Slice(log_content, st.start_idx, i + 1)))]
         ELSE [st EXCEPT !.brace_level = @ - 1]
    ELSE st

\* The iterations lo .. hi-1 of the for loop, from the loop state st: the
\* first half of them, then the second half from the state the first half
\* ends in.
RECURSIVE ScanRange(_, _, _, _)
ScanRange(st, log_content, lo, hi) ==
    IF hi <= lo THEN st
    ELSE IF hi = lo + 1 THEN ScanStep(st, log_content[hi], log_content, lo)
    ELSE CHOOSE end \in {ScanRange(half, log_content, (lo + hi) \div 2, hi) :
                             half \in {ScanRange(st, log_content, lo, (lo + hi) \div 2)}} : TRUE

extract_json_blocks(log_content) ==
    ScanRange(ScanInit, log_content, 0, Len(log_content)).json_blocks

\* The value of brace_level after each iteration of the loop.
brace_levels(log_content) ==
    [n \in 1..Len(log_content) |-> ScanRange(ScanInit, log_content, 0, n).brace_level]

(***************************************************************************)
(* LogParser.is_deck_data, LogParser.extract_decks                         *)
(***************************************************************************)
deck_keys == {"mainDeck", "sideboard", "deckId", "name", "decks", "deckList", "mainBoard"}

\* As is_deck_data, had the keys been matched without regard to case.
is_deck_data_IgnoreCase(json_obj) ==
    \E key \in deck_keys \cup {"MainDeck", "Name", "DECKS", "deckid"} : HasKey(json_obj, key)

is_deck_data(json_obj) == \E key \in deck_keys : HasKey(json_obj, key)

\* The raw decks of a parsed object, in order.
extract_decks(json_obj) ==
    IF HasKey(json_obj, "decks")
    THEN LET decks_data == json_obj.v["decks"]
         IN  IF IsList(decks_data) THEN decks_data.v
             ELSE IF IsDict(decks_data) THEN <<decks_data>>
             ELSE <<>>
    ELSE IF HasKey(json_obj, "mainDeck") \/ HasKey(json_obj, "mainBoard")
    THEN <<json_obj>>
    ELSE <<>>

(***************************************************************************)
(* LogParser.parse_deck_list                                               *)
(***************************************************************************)
UnnamedDeck == Str(<<"U", "n", "n", "a", "m", "e", "d", " ", "D", "e", "c", "k">>)
UnknownFormat == Str(<<"u", "n", "k", "n", "o", "w", "n">>)
UnknownCard == Str(<<"U", "n", "k", "n", "o", "w", "n">>)

\* The entry appended for one card mapping of a main deck or sideboard.
CardEntry(card) ==
    [card_id |-> Or(Get(card, "cardId"), Get(card, "id")),
     quantity |-> GetOr(card, "quantity", Num(1)),
     name |-> GetOr(card, "name", UnknownCard)]

\* As CardEntries, had the loop stopped at the first card that is no mapping.
CardEntries_UntilNoMapping(cards) ==
    LET stop == {k \in 1..Len(cards) : ~IsDict(cards[k])} \cup {Len(cards) + 1}
    IN  [i \in 1..((CHOOSE k \in stop : \A m \in stop : k <= m) - 1) |-> CardEntry(cards[i])]

\* The loop over a card list: the mappings of the list, in order.
CardEntries(cards) ==
    LET maps == SelectSeq(cards, IsDict)
    IN  [i \in 1..Len(maps) |-> CardEntry(maps[i])]

\* The entries of deck_data[key], when the key is there and holds a list.
CardList(deck_data, key) ==
    IF HasKey(deck_data, key) /\ IsList(deck_data.v[key])
    THEN CardEntries(deck_data.v[key].v)
    ELSE <<>>

\* The loop over commandZoneGRPIds.
CommanderEntries(deck_data) ==
    IF HasKey(deck_data, "commandZoneGRPIds") /\ IsList(deck_data.v["commandZoneGRPIds"])
    THEN LET commanders == deck_data.v["commandZoneGRPIds"].v
         IN  [i \in 1..Len(commanders) |->
                 [card_id |-> commanders[i], quantity |-> Num(1), name |-> UnknownCard]]
    ELSE <<>>

NoDeck == [raised |-> TRUE, deck |-> <<>>]

\* The body of the try block: deck_data.get raises AttributeError when
\* deck_data is not a mapping; otherwise the deck is built.
ParseDeckBody(deck_data, now) ==
    IF ~IsDict(deck_data) THEN NoDeck
    ELSE [raised |-> FALSE,
          deck |->
            [id |-> Or(Or(Get(deck_data, "id"), Get(deck_data, "deckId")),
                       Get(deck_data, "deckID")),
             name |-> Or(Or(Get(deck_data, "name"), Get(deck_data, "deckName")),
                         UnnamedDeck),
             format |-> Or(Get(deck_data, "format"), UnknownFormat),
             description |-> GetOr(deck_data, "description", Str(<<>>)),
             main_deck |-> CardList(deck_data,
                                    IF HasKey(deck_data, "mainDeck")
                                    THEN "mainDeck" ELSE "mainBoard"),
             sideboard |-> CardList(deck_data, "sideboard"),
             commander |-> CommanderEntries(deck_data),
             timestamp |-> now]]

\* The except clause: an exception of the body is logged and None returned.
\* [ret |-> "deck", deck] is a returned deck, [ret |-> "none"] the None;
\* raised tells whether the call itself raised, which it never does.
ExceptReturnNone(r) ==
    IF r.raised
    THEN [ret |-> "none", deck |-> <<>>, raised |-> FALSE]
    ELSE [ret |-> "deck", deck |-> r.deck, raised |-> FALSE]

\* As parse_deck_list, without its except clause: the exception of the body
\* leaves the function.
Propagate(r) ==
    [ret |-> IF r.raised THEN "none" ELSE "deck", deck |-> r.deck, raised |-> r.raised]

parse_deck_list_NoExcept(deck_data, now) == Propagate(ParseDeckBody(deck_data, now))

parse_deck_list(deck_data, now) == ExceptReturnNone(ParseDeckBody(deck_data, now))

(***************************************************************************)
(* LogParser.parse_log_chunk                                               *)
(***************************************************************************)
IsDeck(r) == r.ret = "deck"
Raised(r) == r.raised

\* "if deck: decks.append(deck)" over the results rs of the calls, unless a
\* call raised.
AppendDecks(rs) ==
    [raised |-> SelectSeq(rs, Raised) # <<>>,
     decks |-> [i \in 1..Len(SelectSeq(rs, IsDeck)) |-> SelectSeq(rs, IsDeck)[i].deck]]

\* The inner loop over the raw decks of one parsed object.
NormalizeAll(deck_list, now) ==
    AppendDecks([i \in 1..Len(deck_list) |-> parse_deck_list(deck_list[i], now)])

\* The body of the outer loop for one parsed object.
DecksOfBlock(json_obj, now) ==
    IF is_deck_data(json_obj)
    THEN NormalizeAll(extract_decks(json_obj), now)
    ELSE [raised |-> FALSE, decks |-> <<>>]

RECURSIVE Flatten(_, _)
Flatten(rs, i) == IF i > Len(rs) THEN <<>> ELSE rs[i].decks \o Flatten(rs, i + 1)

\* The decks of all the objects, in order, unless a call raised.
Collect(rs) == [raised |-> SelectSeq(rs, Raised) # <<>>, decks |-> Flatten(rs, 1)]

\* The outer loop.
DecksOfBlocks(json_blocks, now) ==
    Collect([i \in 1..Len(json_blocks) |-> DecksOfBlock(json_blocks[i], now)])

parse_log_chunk(log_content, start_pos, now) ==
    DecksOfBlocks(extract_json_blocks(Slice(log_content, start_pos, Len(log_content))), now)

(***************************************************************************)
(* LogParser.parse_file                                                    *)
(***************************************************************************)
\* f.seek(from_position); f.read(): nothing when the offset is at or past
\* the end of the file.
ReadFrom(content, from_position) ==
    IF from_position >= Len(content) THEN <<>>
    ELSE Slice(content, from_position, Len(content))

\* As TellAfterRead, had the new position been taken from the length of the
\* text read.
TellAfterRead_ChunkLength(content, from_position) ==
    IF from_position >= Len(content) THEN 0 ELSE Len(content) - from_position

\* As TellAfterRead, had the position after a seek past the end been the end
\* of the file.
TellAfterRead_EndOfFile(content, from_position) == Len(content)

\* f.tell() after the read: the end of the file, or the offset sought when
\* that is past the end.
TellAfterRead(content, from_position) ==
    IF from_position >= Len(content) THEN from_position ELSE Len(content)

\* The try block once the file is open: an exception of the parse is logged
\* and ([], from_position) returned.
ParsedOrEmpty(decks, from_position, new_position) ==
    IF decks.raised
    THEN [decks |-> <<>>, new_position |-> from_position, raised |-> TRUE]
    ELSE [decks |-> decks.decks, new_position |-> new_position, raised |-> FALSE]

\* As parse_file, had a missing file reset the offset to the start.
parse_file_ResetOnMissing(fnd, content, from_position, now) ==
    IF ~fnd
    THEN [decks |-> <<>>, new_position |-> 0, raised |-> FALSE]
    ELSE ParsedOrEmpty(parse_log_chunk(ReadFrom(content, from_position), 0, now),
                       from_position, TellAfterRead(content, from_position))

\* [decks, new_position]; raised tells whether the parse raised (and was
\* caught).  A missing file is FileNotFoundError.
parse_file(fnd, content, from_position, now) ==
    IF ~fnd
    THEN [decks |-> <<>>, new_position |-> from_position, raised |-> FALSE]
    ELSE ParsedOrEmpty(parse_log_chunk(ReadFrom(content, from_position), 0, now),
                       from_position, TellAfterRead(content, from_position))

(***************************************************************************)
(* MTGArenaDaemon.get_deck_id: the f-string of id, name and card count.    *)
(***************************************************************************)
Digit(d) == <<"0", "1", "2", "3", "4", "5", "6", "7", "8", "9">>[d + 1]

\* str(n) of an int
RECURSIVE IntStr(_)
IntStr(n) ==
    IF n < 0 THEN <<"-">> \o IntStr(-n)
    ELSE IF n < 10 THEN <<Digit(n)>>
    ELSE IntStr(n \div 10) \o <<Digit(n % 10)>>

\* repr(x), and the ", "-joined reprs of a list's elements and a dict's items
RECURSIVE Repr(_), ReprElems(_, _), ReprItems(_, _)
ReprElems(elems, i) ==
    IF i > Len(elems) THEN <<>>
    ELSE (IF i > 1 THEN <<",", " ">> ELSE <<>>) \o Repr(elems[i]) \o ReprElems(elems, i + 1)

ReprItems(d, i) ==
    IF i > Len(d.ks) THEN <<>>
    ELSE (IF i > 1 THEN <<",", " ">> ELSE <<>>)
         \o <<"'", d.ks[i], "'", ":", " ">> \o Repr(d.v[d.ks[i]]) \o ReprItems(d, i + 1)

Repr(x) ==
    CASE x.t = "str" -> <<"'">> \o x.v \o <<"'">>
      [] x.t = "num" -> IntStr(x.v)
      [] x.t = "null" -> <<"N", "o", "n", "e">>
      [] x.t = "list" -> <<"[">> \o ReprElems(x.v, 1) \o <<"]">>
      [] x.t = "dict" -> <<"{">> \o ReprItems(x, 1) \o <<"}">>

\* format(x) inside an f-string: str(x)
Format(x) == IF x.t = "str" THEN x.v ELSE Repr(x)

\* As get_deck_id, had the key been built from the deck's time stamp instead
\* of its card count.
get_deck_id_Timestamp(deck) ==
    Format(deck.id) \o <<"_">> \o Format(deck.name) \o <<"_">> \o IntStr(deck.timestamp)

get_deck_id(deck) ==
    LET deck_id == IF "id" \in DOMAIN deck THEN deck.id ELSE Str(<<>>)
        deck_name == IF "name" \in DOMAIN deck THEN deck.name ELSE Str(<<>>)
        main_count == Len(IF "main_deck" \in DOMAIN deck THEN deck.main_deck ELSE <<>>)
    IN  Format(deck_id) \o <<"_">> \o Format(deck_name) \o <<"_">> \o IntStr(main_count)

(***************************************************************************)
(* The export loop of process_log_file: the decks of the batch whose key   *)
(* is not in the ledger are handed to the exporter, in order, and their    *)
(* keys recorded.                                                          *)
(***************************************************************************)
(***************************************************************************)
(* DeckExporter.export_deck: the formats it wrote a file for.  Each format  *)
(* builds its file name from the deck's name and id and fails, caught and   *)
(* logged, when the name is no string (sanitize_filename) or the id puts a  *)
(* path separator in the file name.                                         *)
(***************************************************************************)
export_format == {"json", "text", "mtga"}

export_deck(deck, formats) ==
    IF deck.name.t # "str" THEN {}
    ELSE IF Truthy(deck.id) /\ \E k \in 1..Len(Format(deck.id)) : Format(deck.id)[k] = "/"
    THEN {}
    ELSE formats

\* As ExportLoop, had a deck's key been recorded only when export_deck wrote
\* a file for it.
RECURSIVE ExportLoop_OnlyWritten(_, _, _, _)
ExportLoop_OnlyWritten(decks, i, ledger, surfaced) ==
    IF i > Len(decks) THEN [surfaced |-> surfaced, exported_decks |-> ledger]
    ELSE IF get_deck_id(decks[i]) \notin ledger
         THEN ExportLoop_OnlyWritten(
                  decks, i + 1,
                  IF export_deck(decks[i], export_format) = {} THEN ledger
                  ELSE ledger \cup {get_deck_id(decks[i])},
                  Append(surfaced, decks[i]))
         ELSE ExportLoop_OnlyWritten(decks, i + 1, ledger, surfaced)

\* As ExportLoop, had the ledger been pruned to the keys of the latest batch.
ExportLoop_Pruned(decks, i, ledger, surfaced) ==
    [surfaced |-> SelectSeq(decks, LAMBDA deck : get_deck_id(deck) \notin ledger),
     exported_decks |-> {get_deck_id(decks[k]) : k \in 1..Len(decks)}]

RECURSIVE ExportLoop(_, _, _, _)
ExportLoop(decks, i, ledger, surfaced) ==
    IF i > Len(decks) THEN [surfaced |-> surfaced, exported_decks |-> ledger]
    ELSE IF get_deck_id(decks[i]) \notin ledger
         THEN ExportLoop(decks, i + 1, ledger \cup {get_deck_id(decks[i])},
                         Append(surfaced, decks[i]))
         ELSE ExportLoop(decks, i + 1, ledger, surfaced)

(***************************************************************************)
(* Bounds of the model.                                                    *)
(***************************************************************************)
\* Writes to the log by the game client.
MaxAppends == 2
\* Calls of process_log_file.
MaxScans == 3
\* Truncations and deletions of the log.
MaxDisrupt == 1
\* Lexemes a truncation leaves at most (0: the log is rotated).
MaxKeep == 1
\* Elements of a "decks" list in a buffer under test.
MaxDecks == 2

(***************************************************************************)
(* What the game client appends in one write.                              *)
(***************************************************************************)
DeckA == <<"{", "id", Quote, "a", Quote, "mainDeck", "[", "{", "cardId", "1", "}", "]", "}">>
\* The id, name and card count of DeckA, with another card.
DeckB == <<"{", "id", Quote, "a", Quote, "mainDeck", "[", "{", "cardId", "2", "}", "]", "}">>
\* A deck written in two writes.
DeckHead == <<"{", "name", Quote, "b", Quote, "mainDeck", "[">>
DeckTail == <<"]", "}">>
LogLine == <<"x">>
\* A deck whose name is a number: export_deck writes no file for it.
DeckC == <<"{", "name", "1", "mainDeck", "[", "]", "}">>

Writes == {DeckA, DeckB, DeckC, DeckHead, DeckTail, LogLine}

(***************************************************************************)
(* State.                                                                  *)
(***************************************************************************)
VARIABLES
    file,            \* the content of Player.log
    found,           \* whether Player.log exists
    last_position,   \* MTGArenaDaemon.last_position
    exported_decks,  \* MTGArenaDaemon.exported_decks
    auto_export,     \* config['deck_export']['auto_export']
    exports,         \* the decks handed to DeckExporter.export_deck, in order
    clock,           \* datetime.now(), in calls of process_log_file
    last,            \* what the latest call of process_log_file did
    dirty,           \* a write to the log since the latest call
    appended,        \* the number of writes so far
    disrupted,       \* the number of truncations and deletions so far
    input,           \* the pieces a buffer under test was built from
    threads          \* where the main thread and the observer thread are

vars == <<file, found, last_position, exported_decks, auto_export, exports, clock,
          last, dirty, appended, disrupted, input, threads>>

\* What parse_file returned to a thread that is inside process_log_file.
NoParse == [decks |-> <<>>, new_position |-> 0, raised |-> FALSE]

\* One thread that calls process_log_file, one call after the other.
Sequential ==
    [main |-> "sequential", observer |-> "off", events |-> 0,
     parse_on_startup |-> FALSE, use_watchdog |-> FALSE,
     local |-> [main |-> NoParse, observer |-> NoParse]]

NoCall ==
    [from |-> 0, found |-> TRUE, eof |-> 0, new_position |-> 0, quiet |-> FALSE,
     raised |-> FALSE, chunk |-> <<>>, json_blocks |-> <<>>, like |-> <<>>, raw |-> <<>>,
     per |-> <<>>, decks |-> <<>>, surfaced |-> <<>>, ledger |-> {}]

Init ==
    /\ file = <<>>
    /\ found = TRUE
    /\ last_position = 0
    /\ exported_decks = {}
    /\ auto_export \in BOOLEAN
    /\ exports = <<>>
    /\ clock = 0
    /\ last = NoCall
    /\ dirty = TRUE
    /\ appended = 0
    /\ disrupted = 0
    /\ input = [kind |-> "log"]
    /\ threads = Sequential

(***************************************************************************)
(* MTGArenaDaemon.process_log_file                                         *)
(***************************************************************************)
\* The loop "for deck in decks" when auto_export is set.
ExportNew(decks, ledger, auto) ==
    IF auto THEN ExportLoop(decks, 1, ledger, <<>>)
    ELSE [surfaced |-> <<>>, exported_decks |-> ledger]

\* What one call leaves in self.last_position and self.exported_decks, and
\* the decks (surfaced) it hands to the exporter.
Processed(parsed, export) ==
    [decks |-> parsed.decks,
     raised |-> parsed.raised,
     last_position |-> parsed.new_position,
     exported_decks |-> export.exported_decks,
     surfaced |-> export.surfaced]

ExportParsed(parsed, ledger, auto) == Processed(parsed, ExportNew(parsed.decks, ledger, auto))

\* As ProcessLogFileBody, had the call kept its position and its ledger in
\* locals and stored neither.
StoreNothing(done, position, ledger) ==
    [done EXCEPT !.last_position = position, !.exported_decks = ledger]

ProcessLogFileBody_Forgetful(fnd, content, position, ledger, auto, now) ==
    StoreNothing(ExportParsed(parse_file(fnd, content, position, now), ledger, auto),
                 position, ledger)

ProcessLogFileBody(fnd, content, position, ledger, auto, now) ==
    ExportParsed(parse_file(fnd, content, position, now), ledger, auto)

\* What the objects read by a call were turned into, one entry per object:
\* the raw decks of extract_decks and the decks normalized from them.
RawOf(json_blocks) ==
    [i \in 1..Len(json_blocks) |->
        IF is_deck_data(json_blocks[i]) THEN extract_decks(json_blocks[i]) ELSE <<>>]

\* What is_deck_data answered for each object.
LikeOf(json_blocks) == [i \in 1..Len(json_blocks) |-> is_deck_data(json_blocks[i])]

PerOf(json_blocks, now) ==
    [i \in 1..Len(json_blocks) |-> DecksOfBlock(json_blocks[i], now).decks]

CallRecord(done, json_blocks, chunk) ==
    [from |-> last_position,
     found |-> found,
     eof |-> Len(file),
     new_position |-> done.last_position,
     quiet |-> ~dirty,
     raised |-> done.raised,
     chunk |-> chunk,
     json_blocks |-> json_blocks,
     like |-> LikeOf(json_blocks),
     raw |-> RawOf(json_blocks),
     per |-> PerOf(json_blocks, clock),
     decks |-> done.decks,
     surfaced |-> done.surfaced,
     ledger |-> exported_decks]

process_log_file ==
    /\ clock < MaxScans
    /\ \E done \in {ProcessLogFileBody(found, file, last_position, exported_decks,
                                       auto_export, clock)} :
          /\ last_position' = done.last_position
          /\ exported_decks' = done.exported_decks
          /\ exports' = exports \o done.surfaced
          /\ \E chunk \in {IF found THEN ReadFrom(file, last_position) ELSE <<>>} :
                last' = CallRecord(done, extract_json_blocks(chunk), chunk)
    /\ clock' = clock + 1
    /\ dirty' = FALSE
    /\ UNCHANGED <<file, found, auto_export, appended, disrupted, input, threads>>

(***************************************************************************)
(* The environment: the game client and whoever rotates the log.           *)
(***************************************************************************)
\* The observer, when it runs, queues an event for a write to the log.
Notify(th) == IF th.observer = "off" THEN th ELSE [th EXCEPT !.events = @ + 1]

AppendLog ==
    /\ found
    /\ appended < MaxAppends
    /\ \E w \in Writes : file' = file \o w
    /\ appended' = appended + 1
    /\ dirty' = TRUE
    /\ UNCHANGED <<found, last_position, exported_decks, auto_export, exports, clock,
                   last, disrupted, input>>
    /\ threads' = Notify(threads)

TruncateLog ==
    /\ found
    /\ disrupted < MaxDisrupt
    /\ \E k \in 0..(Len(file) - 1) : k <= MaxKeep /\ file' = SubSeq(file, 1, k)
    /\ disrupted' = disrupted + 1
    /\ dirty' = TRUE
    /\ UNCHANGED <<found, last_position, exported_decks, auto_export, exports, clock,
                   last, appended, input, threads>>

DeleteLog ==
    /\ found
    /\ disrupted < MaxDisrupt
    /\ found' = FALSE
    /\ file' = <<>>
    /\ disrupted' = disrupted + 1
    /\ dirty' = TRUE
    /\ UNCHANGED <<last_position, exported_decks, auto_export, exports, clock, last,
                   appended, input, threads>>

CreateLog ==
    /\ ~found
    /\ found' = TRUE
    /\ file' = <<>>
    /\ dirty' = TRUE
    /\ UNCHANGED <<last_position, exported_decks, auto_export, exports, clock, last,
                   appended, disrupted, input, threads>>

Next == process_log_file \/ AppendLog \/ TruncateLog \/ DeleteLog \/ CreateLog

Spec == Init /\ [][Next]_vars

(***************************************************************************)
(* Buffers under test: the log as it is when the daemon starts.            *)
(***************************************************************************)
\* Text of the log that is no JSON: plain text, a bracketed time stamp, a
\* braced word, a lone closing brace, a lone opening brace.
Texts == {<<"x">>, <<"[", "x", "]">>, <<"{", "x", "}">>, <<"}">>, <<"{">>}

\* Well-formed objects without an object nested in them.
FlatObjects ==
    {<<"{", "}">>,
     <<"{", "name", Quote, "a", Quote, "}">>,
     <<"{", "mainDeck", "[", "]", "id", Quote, "a", Quote, "}">>,
     <<"{", "other", "1", "}">>,
     <<"{", "name", Quote, "}", Quote, "}">>}

\* A buffer of two flat objects with text between and around them.
TwoObjectInputs ==
    [kind : {"two"}, s1 : Texts \cup {<<>>}, o1 : FlatObjects, s2 : Texts,
     o2 : FlatObjects, s3 : Texts \cup {<<>>}]

\* The elements of a "decks" list: a deck, a deck under its other keys, a
\* mapping without a main deck, a number.
DeckElems ==
    {<<"{", "mainDeck", "[", "]", "}">>,
     <<"{", "name", Quote, "b", Quote, "mainBoard", "[", "{", "cardId", "1", "}", "]", "}">>,
     <<"{", "id", Quote, "a", Quote, "}">>,
     <<"1">>}

RECURSIVE Concat(_, _)
Concat(ss, i) == IF i > Len(ss) THEN <<>> ELSE ss[i] \o Concat(ss, i + 1)

DeckLists ==
    UNION {[1..n -> DeckElems] : n \in 0..MaxDecks}

\* The "decks" member of an object: none, a list, a mapping, a number, null.
DecksMembers ==
    {<<>>, <<"decks", "1">>, <<"decks", "null">>,
     <<"decks", "{", "mainDeck", "[", "]", "}">>}
    \cup {<<"decks", "[">> \o Concat(l, 1) \o <<"]">> : l \in DeckLists}

\* The main-deck member of an object.
MainMembers ==
    {<<>>, <<"mainDeck", "[", "{", "cardId", "1", "}", "]">>, <<"mainBoard", "[", "]">>,
     <<"mainDeck", "1">>,
     <<"mainBoard", "[", "{", "cardId", "2", "}", "1", "]",
       "mainDeck", "[", "4", "{", "cardId", "1", "}", "]">>}

\* Another member of an object.
OtherMembers == {<<>>, <<"sideboard", "[", "]">>, <<"name", Quote, "a", Quote>>, <<"other", "1">>}

\* A buffer of one object.
OneObjectInputs ==
    [kind : {"one"}, decks : DecksMembers, main : MainMembers, other : OtherMembers]

\* The identifying members of a raw deck: none, an id, an empty or zero id
\* before another identifying key, the other keys alone, a number.
IdMembers ==
    {<<>>,
     <<"id", Quote, "a", Quote>>,
     <<"id", Quote, Quote, "deckId", Quote, "b", Quote>>,
     <<"id", "0", "deckID", Quote, "c", Quote>>,
     <<"deckId", Quote, "b", Quote, "deckID", Quote, "c", Quote>>,
     <<"id", "1">>}

NameMembers ==
    {<<>>,
     <<"name", Quote, "n", Quote>>,
     <<"name", Quote, Quote>>,
     <<"name", Quote, Quote, "deckName", Quote, "m", Quote>>,
     <<"deckName", Quote, "m", Quote>>}

FormatMembers == {<<>>, <<"format", Quote, "s", Quote>>, <<"format", Quote, Quote>>}

\* The elements of a card list.
CardForest == <<"{", "cardId", "1", "quantity", "4", "name", Quote, "F", Quote, "}">>
CardElf == <<"{", "cardId", "2", "quantity", "1", "name", Quote, "E", Quote, "}">>
CardBare == <<"{", "cardId", "2", "}">>
CardZeroId == <<"{", "cardId", "0", "quantity", "2", "name", Quote, "F", Quote, "}">>
CardZeroQuantity == <<"{", "cardId", "1", "quantity", "0", "name", Quote, "F", Quote, "}">>
CardNoMapping == <<"1">>

CardLists ==
    {<<>>, CardForest, CardForest \o CardElf, CardBare, CardZeroId, CardZeroQuantity,
     CardNoMapping \o CardForest}

\* The sideboard and the commanders of a raw deck.
SideMembers ==
    {<<>>,
     <<"sideboard", "[", "]">>,
     <<"sideboard", "[">> \o CardBare \o <<"]", "commandZoneGRPIds", "[", "4", "]">>,
     <<"sideboard", "[">> \o CardZeroQuantity \o <<"]">>}

\* A buffer of one raw deck.
DeckInputs ==
    [kind : {"deck"}, id : IdMembers, name : NameMembers, format : FormatMembers,
     cards : CardLists, side : SideMembers]

\* Objects with objects nested in them: a deck container, a deck, a block
\* that does not decode.
NestedObjects ==
    {<<"{", "decks", "[", "{", "mainDeck", "[", "]", "}", "]", "}">>,
     <<"{", "name", Quote, "a", Quote, "mainDeck", "[">> \o CardForest \o <<"]", "}">>,
     <<"{", "x", "{", "mainDeck", "[", "]", "}", "}">>,
     <<"{", "other", "{", "other", "{", "mainDeck", "[", "]", "}", "}", "}">>}

\* Objects whose closing brace has not been written yet.
OpenObjects ==
    {<<"{", "mainDeck", "[">>,
     <<"{", "name", Quote, "a", Quote, "mainDeck", "[">> \o CardForest,
     <<"{", "decks", "[", "{", "mainDeck", "[", "]", "}">>}

\* A buffer of text, an object (whole or not) and text.
NestInputs ==
    [kind : {"nest"}, s1 : Texts \cup {<<>>}, body : NestedObjects \cup OpenObjects,
     s3 : Texts \cup {<<>>}]

\* An object under keys that differ from the recognized ones by case only,
\* or under one recognized key.
CaseMembers ==
    {<<"MainDeck", "[", "]">>, <<"Name", Quote, "a", Quote>>, <<"DECKS", "[", "]">>,
     <<"deckid", "1">>, <<"deckList", "[", "]">>, <<"deckId", "1">>, <<"id", "1">>}

CaseInputs == [kind : {"case"}, m1 : CaseMembers, m2 : CaseMembers \cup {<<>>}]

\* Decks whose ids and names hold the separator of the ledger key, or the
\* text that a missing id is formatted to.
KeyDecks ==
    {<<"{", "id", Quote, "a", "_", "b", Quote, "name", Quote, "c", Quote, "mainDeck", "[", "]", "}">>,
     <<"{", "id", Quote, "a", Quote, "name", Quote, "b", "_", "c", Quote, "mainDeck", "[", "]", "}">>,
     <<"{", "name", Quote, "n", Quote, "mainDeck", "[", "]", "}">>,
     <<"{", "id", Quote, "N", "o", "n", "e", Quote, "name", Quote, "n", Quote,
       "mainDeck", "[", "]", "}">>,
     <<"{", "id", Quote, "a", Quote, "name", Quote, "b", "_", "c", Quote,
       "mainDeck", "[", "{", "cardId", "1", "}", "]", "}">>}

\* A buffer of one object with two decks under "decks".
PairInputs == [kind : {"pair"}, d1 : KeyDecks, d2 : KeyDecks]

BufferOf(in) ==
    CASE in.kind = "two" -> in.s1 \o in.o1 \o in.s2 \o in.o2 \o in.s3
      [] in.kind = "one" -> <<"{">> \o in.decks \o in.main \o in.other \o <<"}">>
      [] in.kind = "deck" ->
            <<"{">> \o in.id \o in.name \o in.format \o <<"mainDeck", "[">> \o in.cards
                \o <<"]">> \o in.side \o <<"}">>
      [] in.kind = "nest" -> in.s1 \o in.body \o in.s3
      [] in.kind = "case" -> <<"{">> \o in.m1 \o in.m2 \o <<"}">>
      [] in.kind = "pair" -> <<"{", "decks", "[">> \o in.d1 \o in.d2 \o <<"]", "}">>

\* The daemon starts on a log that holds a buffer under test, or on none.
InitChunk ==
    /\ input \in TwoObjectInputs \cup OneObjectInputs \cup DeckInputs \cup NestInputs
                 \cup CaseInputs \cup PairInputs
    /\ file = BufferOf(input)
    /\ found \in BOOLEAN
    /\ last_position = 0
    /\ exported_decks = {}
    /\ auto_export = TRUE
    /\ exports = <<>>
    /\ clock = 0
    /\ last = NoCall
    /\ dirty = TRUE
    /\ appended = 0
    /\ disrupted = 0
    /\ threads = Sequential

NextChunk == process_log_file

SpecChunk == InitChunk /\ [][NextChunk]_vars

(***************************************************************************)
(* The triggers of process_log_file: MTGArenaDaemon.start in the main      *)
(* thread (the startup parse, then the polling loop or the sleep loop) and *)
(* LogFileHandler.on_modified in the observer thread, which dispatches one *)
(* event at a time.  A call is two steps: parse_file from the position     *)
(* read, then the store of the new position and the export loop.           *)
(***************************************************************************)
\* Where the main thread is inside process_log_file.
ScanLocations == {"startup_scan", "poll_scan"}

\* The number of calls of process_log_file in flight.
InFlight(th) ==
    (IF th.main \in ScanLocations THEN 1 ELSE 0) + (IF th.observer = "scan" THEN 1 ELSE 0)

\* As MonitorOf, had the polling loop been started beside the observer.
MonitorOf_AlwaysPoll(use_watchdog, started) == "polling"

\* What start does after the startup parse: the sleep loop when the
\* watchdog is to be used and its observer started, else the polling loop.
MonitorOf(use_watchdog, started) ==
    IF use_watchdog /\ started THEN "watching" ELSE "polling"

\* A thread enters process_log_file: parse_file from self.last_position.
ScanBegin(thread, location) ==
    /\ clock < MaxScans
    /\ threads' = [threads EXCEPT ![thread] = location,
                                  !.local[thread] =
                                      parse_file(found, file, last_position, clock)]
    /\ clock' = clock + 1
    /\ UNCHANGED <<file, found, last_position, exported_decks, auto_export, exports,
                   last, dirty, appended, disrupted, input>>

\* The thread stores the new position, runs the export loop and returns;
\* events is the number of events left for the observer.
ScanEnd(thread, location, events) ==
    /\ \E done \in {ExportParsed(threads.local[thread], exported_decks, auto_export)} :
          /\ last_position' = done.last_position
          /\ exported_decks' = done.exported_decks
          /\ exports' = exports \o done.surfaced
    /\ threads' = [threads EXCEPT ![thread] = location, !.local[thread] = NoParse,
                                  !.events = events]
    /\ UNCHANGED <<file, found, auto_export, clock, last, dirty, appended, disrupted,
                   input>>

\* start: the startup parse, when configured and the log exists.
StartParse ==
    /\ threads.main = "start"
    /\ threads.parse_on_startup /\ found
    /\ ScanBegin("main", "startup_scan")

StartParsed ==
    /\ threads.main = "startup_scan"
    /\ ScanEnd("main", "monitor", threads.events)

StartNoParse ==
    /\ threads.main = "start"
    /\ ~(threads.parse_on_startup /\ found)
    /\ threads' = [threads EXCEPT !.main = "monitor"]
    /\ UNCHANGED <<file, found, last_position, exported_decks, auto_export, exports,
                   clock, last, dirty, appended, disrupted, input>>

\* start: start_watchdog_monitor when the watchdog is to be used (it starts
\* the observer, or fails and returns False), then the loop of MonitorOf.
StartMonitor ==
    /\ threads.main = "monitor"
    /\ \E started \in (IF threads.use_watchdog THEN BOOLEAN ELSE {FALSE}) :
          threads' = [threads EXCEPT
                         !.main = MonitorOf(threads.use_watchdog, started),
                         !.observer = IF started THEN "idle" ELSE "off"]
    /\ UNCHANGED <<file, found, last_position, exported_decks, auto_export, exports,
                   clock, last, dirty, appended, disrupted, input>>

\* start_polling_monitor: one round of the loop, when the log exists.
PollScan ==
    /\ threads.main = "polling"
    /\ found
    /\ ScanBegin("main", "poll_scan")

PollScanned ==
    /\ threads.main = "poll_scan"
    /\ ScanEnd("main", "polling", threads.events)

\* LogFileHandler.on_modified: the observer thread takes the next event.
on_modified ==
    /\ threads.observer = "idle"
    /\ threads.events > 0
    /\ ScanBegin("observer", "scan")

\* The call returns and the event is done.
OnModifiedDone ==
    /\ threads.observer = "scan"
    /\ ScanEnd("observer", "idle", threads.events - 1)

\* The daemon is started on an empty log, under each configuration.
InitThreads ==
    /\ file = <<>>
    /\ found = TRUE
    /\ last_position = 0
    /\ exported_decks = {}
    /\ auto_export = TRUE
    /\ exports = <<>>
    /\ clock = 0
    /\ last = NoCall
    /\ dirty = TRUE
    /\ appended = 0
    /\ disrupted = 0
    /\ input = [kind |-> "log"]
    /\ \E startup, watchdog \in BOOLEAN :
          threads = [Sequential EXCEPT !.main = "start",
                                       !.parse_on_startup = startup,
                                       !.use_watchdog = watchdog]

NextThreads ==
    \/ StartParse \/ StartParsed \/ StartNoParse \/ StartMonitor
    \/ PollScan \/ PollScanned
    \/ on_modified \/ OnModifiedDone
    \/ AppendLog

SpecThreads == InitThreads /\ [][NextThreads]_vars

(***************************************************************************)
(* Properties of the scan loop, checked under Spec.                        *)
(***************************************************************************)

\* C1: idempotence under no growth.  A call of process_log_file that follows
\* another call with no write to the log in between (last.quiet) hands no
\* deck to the exporter, whatever the log holds.
C1_IdempotentNoGrowth == last.quiet => last.surfaced = <<>>

\* A quiet second call after a call that surfaced a deck.
C1_Witness ==
    /\ last.quiet
    /\ last.found
    /\ last.from > 0
    /\ exports # <<>>

\* The deck named "b" of DeckHead and DeckTail has been handed to the exporter.
DeckBSurfaced == \E i \in 1..Len(exports) : exports[i].name = Str(<<"b">>)

\* C2: unterminated-block retry.  The deck of DeckHead and DeckTail was
\* written in two writes, a call ran between them (the latest call started at
\* the end of DeckHead) and the latest call ran after the second write (it
\* saw the whole log): the deck has then been surfaced.
C2_UnterminatedRetry ==
    (/\ file = DeckHead \o DeckTail
     /\ disrupted = 0
     /\ auto_export
     /\ clock > 0
     /\ last.from = Len(DeckHead)
     /\ last.eof = Len(file))
    => DeckBSurfaced

\* C4: offset monotonicity.  While the log has only been appended to, each
\* call returns an offset that is not below the offset it was given (the one
\* the call before returned), that is the end of the log at the call, and
\* that is stored for the next call.
C4_OffsetMonotone ==
    (disrupted = 0 /\ clock > 0)
    => /\ last.from <= last.new_position
       /\ last.new_position = last.eof
       /\ last_position = last.new_position

\* A call from a positive offset that advanced it, on a log only appended to.
C4_Witness ==
    /\ disrupted = 0
    /\ clock > 1
    /\ last.from > 0
    /\ last.new_position > last.from

\* What the ledger identifies a deck by: its id, its name and the number of
\* its main-deck entries.
DeckIdentity(deck) == <<deck.id, deck.name, Len(deck.main_deck)>>

\* C5: dedup fingerprint collision.  No two decks handed to the exporter, in
\* one call or in two, have the same id, name and number of main-deck
\* entries: the second one is taken for the first, whatever its cards.
C5_FingerprintCollision ==
    \A i, j \in 1..Len(exports) :
        i < j => DeckIdentity(exports[i]) # DeckIdentity(exports[j])

\* The latest call parsed a deck with the identity of an exported deck and
\* other cards.
C5_Witness ==
    \E i \in 1..Len(last.decks), j \in 1..Len(exports) :
        /\ DeckIdentity(last.decks[i]) = DeckIdentity(exports[j])
        /\ last.decks[i].main_deck # exports[j].main_deck

\* C6: stream regression.  A call that finds the end of the log behind the
\* offset it was given gives its caller something else than the outcome of
\* "no new data" (no deck, the offset it was given, no error).
C6_RegressionReported ==
    (clock > 0 /\ last.found /\ last.eof < last.from)
    => ~(/\ last.decks = <<>>
         /\ last.new_position = last.from
         /\ ~last.raised)

\* C7: source unavailable.  A call that finds no log does not raise, returns
\* no deck and the offset it was given, and leaves last_position and the
\* ledger as they were: the next call reads from the same offset.
C7_SourceUnavailable ==
    (clock > 0 /\ ~last.found)
    => /\ ~last.raised
       /\ last.decks = <<>>
       /\ last.surfaced = <<>>
       /\ last.new_position = last.from
       /\ last_position = last.from
       /\ exported_decks = last.ledger

\* A call without a log, from a positive offset and with a deck in the ledger.
C7_Witness ==
    /\ clock > 0
    /\ ~last.found
    /\ last.from > 0
    /\ last.ledger # {}

(***************************************************************************)
(* Properties of one scan of a buffer under test, checked under SpecChunk. *)
(***************************************************************************)

\* C3: balanced-block extraction.  From a buffer of two well-formed flat
\* objects with text that is no JSON between and around them,
\* extract_json_blocks yields the two objects, in their order.
C3_TwoBlocks ==
    (input.kind = "two" /\ clock = 1 /\ last.found)
    => last.json_blocks = <<JsonLoads(input.o1).val, JsonLoads(input.o2).val>>

HasMainKey(json_obj) == HasKey(json_obj, "mainDeck") \/ HasKey(json_obj, "mainBoard")

\* C8: main-deck invariant.  Every deck a call returns has a main_deck, and
\* an object read from the log without a mainDeck and without a mainBoard
\* key yields no deck.
C8_MainDeckInvariant ==
    /\ \A i \in 1..Len(last.decks) : "main_deck" \in DOMAIN last.decks[i]
    /\ \A i \in 1..Len(last.json_blocks) :
          ~HasMainKey(last.json_blocks[i]) => last.per[i] = <<>>

\* C9: per-item failure isolation.  A call does not raise, whatever the
\* buffer holds and whether or not the log is there; each object yields one
\* deck per raw deck that is a mapping (a raw deck that cannot be normalized
\* is left out alone), and the call returns the decks of all the objects.
C9_FailureIsolation ==
    clock > 0
    => /\ ~last.raised
       /\ \A i \in 1..Len(last.json_blocks) :
             Len(last.per[i]) = Len(SelectSeq(last.raw[i], IsDict))
       /\ last.decks = Concat(last.per, 1)

\* A "decks" list with an element that cannot be normalized and one that
\* can, and a deck returned.
C9_Witness ==
    /\ clock > 0
    /\ last.decks # <<>>
    /\ \E i \in 1..Len(last.raw) :
          \E j, k \in 1..Len(last.raw[i]) :
              ~IsDict(last.raw[i][j]) /\ IsDict(last.raw[i][k])

\* The raw decks the expansion rule gives for an object.
ExpansionRule(json_obj) ==
    IF HasKey(json_obj, "decks") /\ IsList(json_obj.v["decks"])
    THEN json_obj.v["decks"].v
    ELSE IF HasKey(json_obj, "decks") /\ IsDict(json_obj.v["decks"])
    THEN <<json_obj.v["decks"]>>
    ELSE IF HasMainKey(json_obj) THEN <<json_obj>>
    ELSE <<>>

\* C10: deck expansion.  For a deck-like object extract_decks returns the
\* elements of the list under "decks", or the mapping under "decks";
\* without such a list or mapping, the object itself when it has a mainDeck
\* or mainBoard key; otherwise nothing.
C10_DeckExpansion ==
    \A i \in 1..Len(last.json_blocks) :
        is_deck_data(last.json_blocks[i])
        => last.raw[i] = ExpansionRule(last.json_blocks[i])

(***************************************************************************)
(* Properties of the normalized decks, checked under SpecChunk.            *)
(***************************************************************************)

\* The value of the first of the keys that deck_data has, or the default.
RECURSIVE FirstPresent(_, _, _, _)
FirstPresent(deck_data, keys, i, default) ==
    IF i > Len(keys) THEN default
    ELSE IF HasKey(deck_data, keys[i]) THEN deck_data.v[keys[i]]
    ELSE FirstPresent(deck_data, keys, i + 1, default)

\* The raw decks of the i-th object of the latest call that are mappings:
\* the j-th of them was normalized to last.per[i][j].
RawMaps(i) == SelectSeq(last.raw[i], IsDict)

\* C11: field resolution order.  The id, name and format of every deck are
\* the values of the first candidate key that the raw deck has ("id",
\* "deckId", "deckID"; "name", "deckName"; "format"), whatever that value
\* is, and the placeholders when it has none.
C11_FirstPresentWins ==
    \A i \in 1..Len(last.per) :
        \A j \in 1..Len(last.per[i]) :
            /\ last.per[i][j].id
                 = FirstPresent(RawMaps(i)[j], <<"id", "deckId", "deckID">>, 1, None)
            /\ last.per[i][j].name
                 = FirstPresent(RawMaps(i)[j], <<"name", "deckName">>, 1, UnnamedDeck)
            /\ last.per[i][j].format
                 = FirstPresent(RawMaps(i)[j], <<"format">>, 1, UnknownFormat)

\* The card entry with the values of a source card.
SourceEntry(card) ==
    [card_id |-> card.v["cardId"], quantity |-> card.v["quantity"], name |-> card.v["name"]]

IsFullCard(card) ==
    IsDict(card) /\ HasKey(card, "cardId") /\ HasKey(card, "quantity") /\ HasKey(card, "name")

\* An object with id, name and format, a mainDeck of cards that have a
\* cardId, a quantity and a name, an empty sideboard, and no deck container.
IsPlainDeck(json_obj) ==
    /\ HasKey(json_obj, "id") /\ HasKey(json_obj, "name") /\ HasKey(json_obj, "format")
    /\ ~HasKey(json_obj, "decks")
    /\ ~HasKey(json_obj, "commandZoneGRPIds")
    /\ HasKey(json_obj, "mainDeck")
    /\ IsList(json_obj.v["mainDeck"])
    /\ \A k \in 1..Len(json_obj.v["mainDeck"].v) : IsFullCard(json_obj.v["mainDeck"].v[k])
    /\ HasKey(json_obj, "sideboard")
    /\ json_obj.v["sideboard"] = List(<<>>)

\* C12: end-to-end normalization.  The first call on a log that holds one
\* plain deck object returns one deck with the name and the format of the
\* object, one main_deck entry per card of the object, in order and with the
\* card's values, and no sideboard and no commander; a later call on the
\* same log returns no deck.
C12_EndToEnd ==
    (/\ input.kind = "deck"
     /\ last.found
     /\ clock > 0
     /\ IsPlainDeck(JsonLoads(file).val))
    => IF clock = 1
       THEN /\ Len(last.decks) = 1
            /\ last.decks[1].name = JsonLoads(file).val.v["name"]
            /\ last.decks[1].format = JsonLoads(file).val.v["format"]
            /\ last.decks[1].main_deck
                 = [k \in 1..Len(JsonLoads(file).val.v["mainDeck"].v) |->
                       SourceEntry(JsonLoads(file).val.v["mainDeck"].v[k])]
            /\ last.decks[1].sideboard = <<>>
            /\ last.decks[1].commander = <<>>
       ELSE last.decks = <<>>

\* C13: unterminated block tolerance.  A call on a log that ends inside an
\* object does not raise and returns no deck from the text that starts at
\* the opening brace of that object: it returns what it returns for the text
\* before it.
C13_UnterminatedTolerance ==
    (/\ input.kind = "nest"
     /\ input.body \in OpenObjects
     /\ input.s3 = <<>>
     /\ last.found
     /\ clock = 1)
    => /\ ~last.raised
       /\ last.decks = parse_log_chunk(input.s1, 0, 0).decks

\* The cards of deck_data[key] that are mappings: the k-th of them gave the
\* k-th entry.
SourceCards(deck_data, key) ==
    IF HasKey(deck_data, key) /\ IsList(deck_data.v[key])
    THEN SelectSeq(deck_data.v[key].v, IsDict)
    ELSE <<>>

\* The quantities of the entries made from the cards: positive integers, 1
\* for a card without a quantity.
QuantitiesOk(entries, cards) ==
    \A k \in 1..Len(entries) :
        /\ entries[k].quantity.t = "num"
        /\ entries[k].quantity.v >= 1
        /\ (k <= Len(cards) /\ ~HasKey(cards[k], "quantity")) => entries[k].quantity = Num(1)

\* C14: card quantity.  The quantity of every entry of main_deck, sideboard
\* and commander of every deck is a positive integer, and 1 when the source
\* card has no quantity.
C14_QuantityPositive ==
    \A i \in 1..Len(last.per) :
        \A j \in 1..Len(last.per[i]) :
            /\ QuantitiesOk(last.per[i][j].main_deck,
                            SourceCards(RawMaps(i)[j],
                                        IF HasKey(RawMaps(i)[j], "mainDeck")
                                        THEN "mainDeck" ELSE "mainBoard"))
            /\ QuantitiesOk(last.per[i][j].sideboard, SourceCards(RawMaps(i)[j], "sideboard"))
            /\ QuantitiesOk(last.per[i][j].commander, <<>>)

\* C15: the type of a deck's id.  The id of every deck is a string, the empty
\* string when the raw deck has none of the keys "id", "deckId", "deckID".
C15_IdIsString ==
    \A i \in 1..Len(last.per) :
        \A j \in 1..Len(last.per[i]) :
            /\ last.per[i][j].id.t = "str"
            /\ (~HasKey(RawMaps(i)[j], "id") /\ ~HasKey(RawMaps(i)[j], "deckId")
                  /\ ~HasKey(RawMaps(i)[j], "deckID"))
               => last.per[i][j].id = Str(<<>>)

\* C16: ledger monotonicity.  No step removes a key from exported_decks,
\* whatever the call found (decks, nothing, a shorter log, no log), and
\* after every step each key in it is the key of a deck that was handed to
\* the exporter.
C16_LedgerMonotone ==
    [][/\ exported_decks \subseteq exported_decks'
       /\ exported_decks' \subseteq {get_deck_id(exports'[k]) : k \in 1..Len(exports')}]_vars

\* A call on a ledger that holds a key parsed a deck and surfaced none.
C16_Witness ==
    /\ clock > 1
    /\ last.ledger # {}
    /\ last.decks # <<>>
    /\ last.surfaced = <<>>
    /\ exported_decks = last.ledger

\* C18: the classifier.  is_deck_data answers true for an object exactly
\* when one of its keys is, letter for letter, one of deck_keys; the call
\* does not raise.
C18_Classifier ==
    /\ ~last.raised
    /\ \A i \in 1..Len(last.json_blocks) :
          last.like[i] <=> (DOMAIN last.json_blocks[i].v \cap deck_keys # {})

\* An object whose keys differ from recognized ones by case only was
\* answered false.
C18_Witness ==
    /\ input.kind = "case"
    /\ clock = 1
    /\ Len(last.json_blocks) = 1
    /\ HasKey(last.json_blocks[1], "MainDeck")
    /\ HasKey(last.json_blocks[1], "Name")
    /\ ~last.like[1]

\* C19: decode-failure continuation.  A buffer starts with a balanced block
\* that does not decode ("{x}"): the call does not raise and the two
\* well-formed objects that follow it are yielded, in their order.
C19_DecodeFailureContinuation ==
    (/\ input.kind = "two"
     /\ input.s1 = <<"{", "x", "}">>
     /\ last.found
     /\ clock = 1)
    => /\ ~last.raised
       /\ last.json_blocks = <<JsonLoads(input.o1).val, JsonLoads(input.o2).val>>

\* C20: nested objects.  From a buffer of text, one balanced block with
\* objects nested in it, and text, extract_json_blocks yields no other
\* object than the block itself.
C20_NestedNotYielded ==
    (/\ input.kind = "nest"
     /\ input.body \in NestedObjects
     /\ last.found
     /\ clock = 1)
    => \A i \in 1..Len(last.json_blocks) :
           /\ JsonLoads(input.body).ok
           /\ last.json_blocks[i] = JsonLoads(input.body).val

(***************************************************************************)
(* Properties of the triggers, checked under SpecThreads.                  *)
(***************************************************************************)

\* C17: scan serialization.  With the startup parse, the observer's
\* on_modified and the polling loop (also as the fallback of a watchdog
\* that failed to start) as triggers, at most one call of process_log_file
\* is in flight at any time.
C17_ScanSerialized == InFlight(threads) <= 1

\* The observer is inside a call for a write to the log, after the startup
\* parse of the main thread has returned.
C17_Witness ==
    /\ threads.observer = "scan"
    /\ threads.parse_on_startup
    /\ threads.main = "watching"
    /\ clock = 2

(***************************************************************************)
(* Properties of the brace counter, checked under SpecChunk.               *)
(***************************************************************************)

\* The opening braces less the closing braces among the first n characters,
\* wherever they stand.
NetBraces(text, n) ==
    Cardinality({k \in 1..n : text[k] = "{"}) - Cardinality({k \in 1..n : text[k] = "}"})

\* The places after place j where the count is back at zero.
ZeroAfter(text, j) == {k \in (j + 1)..Len(text) : NetBraces(text, k) = 0}

Least(S) == CHOOSE k \in S : \A m \in S : k <= m

\* The blocks that the count alone gives: a block starts at an opening
\* brace met at count zero and ends where the count is next at zero; the
\* blocks that decode, in their order.
BlocksByCounter(text) ==
    LET starts == SelectSeq([j \in 1..Len(text) |-> j],
                            LAMBDA j : /\ text[j] = "{"
                                       /\ NetBraces(text, j - 1) = 0
                                       /\ ZeroAfter(text, j) # {})
        decoded == [n \in 1..Len(starts) |->
                       JsonLoads(SubSeq(text, starts[n], Least(ZeroAfter(text, starts[n]))))]
        oks == SelectSeq(decoded, LAMBDA r : r.ok)
    IN  [n \in 1..Len(oks) |-> oks[n].val]

\* C21: quote-unaware depth counting.  After each character of the text a
\* call read, brace_level is the number of opening braces less the number of
\* closing braces so far, those inside string literals included, and the
\* objects yielded are the blocks that this count alone gives.
C21_QuoteUnaware ==
    (clock > 0 /\ last.found)
    => /\ \A n \in 1..Len(last.chunk) :
             brace_levels(last.chunk)[n] = NetBraces(last.chunk, n)
       /\ last.json_blocks = BlocksByCounter(last.chunk)

\* A well-formed object with a closing brace in a string value was read and
\* not yielded: its block was cut at that brace.
C21_Witness ==
    /\ input.kind = "two"
    /\ input.s1 = <<>>
    /\ input.o1 = <<"{", "name", Quote, "}", Quote, "}">>
    /\ input.s2 = <<"x">>
    /\ last.found
    /\ clock = 1
    /\ last.json_blocks = <<>>

\* C23: depth counter non-negativity.  brace_level is at least 0 after every
\* character of every text a call reads.
C23_DepthNonNegative ==
    \A n \in 1..Len(last.chunk) : brace_levels(last.chunk)[n] >= 0

(***************************************************************************)
(* Properties of the card lists, checked under SpecChunk.                  *)
(***************************************************************************)

\* The entries made from the cards, one per card and in their order: the
\* card's id, its quantity and its name, or their defaults.
EntriesOf(entries, cards) ==
    /\ Len(entries) = Len(cards)
    /\ \A k \in 1..Len(cards) :
          /\ entries[k].card_id = Or(Get(cards[k], "cardId"), Get(cards[k], "id"))
          /\ entries[k].quantity = GetOr(cards[k], "quantity", Num(1))
          /\ entries[k].name = GetOr(cards[k], "name", UnknownCard)

\* C22: card-list normalization.  Every raw deck that is a mapping gives a
\* deck, whatever its card lists hold (the call does not raise); main_deck
\* has one entry for each mapping of the list under "mainDeck" when the raw
\* deck has that key and of the list under "mainBoard" otherwise, sideboard
\* one for each mapping of the list under "sideboard", in the order of the
\* list; what is no mapping is left out.
C22_CardListNormalization ==
    /\ ~last.raised
    /\ \A i \in 1..Len(last.per) :
          /\ Len(last.per[i]) = Len(RawMaps(i))
          /\ \A j \in 1..Len(last.per[i]) :
                /\ EntriesOf(last.per[i][j].main_deck,
                             SourceCards(RawMaps(i)[j],
                                         IF HasKey(RawMaps(i)[j], "mainDeck")
                                         THEN "mainDeck" ELSE "mainBoard"))
                /\ EntriesOf(last.per[i][j].sideboard,
                             SourceCards(RawMaps(i)[j], "sideboard"))

\* A raw deck with both keys, whose mainDeck list starts with a number: the
\* deck has the one entry of the mapping that follows it.
C22_Witness ==
    /\ clock = 1
    /\ Len(last.json_blocks) = 1
    /\ HasKey(last.json_blocks[1], "mainBoard")
    /\ HasKey(last.json_blocks[1], "mainDeck")
    /\ IsList(last.json_blocks[1].v["mainDeck"])
    /\ ~IsDict(last.json_blocks[1].v["mainDeck"].v[1])
    /\ Len(last.decks) = 1
    /\ Len(last.decks[1].main_deck) = 1
    /\ last.decks[1].main_deck[1].card_id = Num(1)

(***************************************************************************)
(* Properties of the ledger key.                                           *)
(***************************************************************************)

\* C24: identity key faithfulness.  Two decks that a call returns have the
\* same ledger key exactly when they have the same id, the same name and
\* the same number of main-deck entries.  Checked under SpecChunk.
C24_KeyFaithful ==
    \A i, j \in 1..Len(last.decks) :
        (get_deck_id(last.decks[i]) = get_deck_id(last.decks[j]))
        <=> (DeckIdentity(last.decks[i]) = DeckIdentity(last.decks[j]))

\* C25: at-most-once export.  No two decks handed to export_deck, in one
\* call or over several, have the same ledger key, whether or not
\* export_deck wrote a file for the first of them.  Checked under Spec.
C25_AtMostOnce ==
    \A i, j \in 1..Len(exports) :
        i < j => get_deck_id(exports[i]) # get_deck_id(exports[j])

\* A deck for which export_deck wrote no file was handed to it, and the
\* latest call parsed a deck with its key and handed none.
C25_Witness ==
    /\ clock > 1
    /\ last.surfaced = <<>>
    /\ \E i \in 1..Len(exports), j \in 1..Len(last.decks) :
          /\ export_deck(exports[i], export_format) = {}
          /\ get_deck_id(last.decks[j]) = get_deck_id(exports[i])

\* C26: unconditional offset monotonicity.  No step lowers last_position,
\* whatever happened to the log (append, truncation, deletion, re-creation)
\* before the call.  Checked under Spec.
C26_PositionNeverDecreases == [][last_position' >= last_position]_vars

\* A call on a log that was cut to less than the position it was given, and
\* the position is where it was.
C26_Witness ==
    /\ clock > 1
    /\ last.found
    /\ last.eof < last.from
    /\ last.from > 0
    /\ last_position = last.from

====
